---------------------------- MODULE Spec2Model ----------------------------
(***************************************************************************)
(* Model of the particle integration and force-accumulation core of zimur  *)
(* (src/src/particle.rs, src/src/pfgen.rs, src/src/math).                  *)
(*                                                                         *)
(* Real (f32) values are modelled as exact rationals <<n, d>> in lowest    *)
(* terms with d > 0, extended with the values of f32 that the code can     *)
(* produce outside that range: <<0,0>> is NaN, <<1,0>> / <<-1,0>> are      *)
(* +/- f32::MAX and <<2,0>> / <<-2,0>> are +/- infinity.  Rounding of f32  *)
(* arithmetic is not modelled: every input set below is chosen so that     *)
(* square roots and powers are exact.                                      *)
(***************************************************************************)
EXTENDS Integers, Sequences, FiniteSets, TLC

VARIABLES particles, registrations, panic, last, steps

vars == <<particles, registrations, panic, last, steps>>

\* Bound on the number of operations called in one behaviour.
MaxSteps == 3

-----------------------------------------------------------------------------
(* Real: src/src/math/precision.rs                                         *)

Abs(i) == IF i < 0 THEN -i ELSE i

Sgn(i) == IF i > 0 THEN 1 ELSE IF i < 0 THEN -1 ELSE 0

RECURSIVE GCD(_, _)
GCD(a, b) == IF b = 0 THEN a ELSE GCD(b, a % b)

\* The rational n/d (d > 0) in lowest terms.
Norm(n, d) == LET g == GCD(Abs(n), d) IN <<n \div g, d \div g>>

Q(n, d) == Norm(n, d)
R(n) == <<n, 1>>
Zero == <<0, 1>>
One == <<1, 1>>

NaN == <<0, 0>>
REAL_MAX == <<1, 0>>
Infinity == <<2, 0>>

IsFin(a) == a[2] > 0
IsNaN(a) == a = NaN
IsInf(a) == a[2] = 0 /\ Abs(a[1]) = 2
IsMax(a) == a[2] = 0 /\ Abs(a[1]) = 1
Sign(a) == Sgn(a[1])
\* Position of a value among the magnitude classes -inf < -MAX < finite < MAX < inf.
Rank(a) == IF IsFin(a) THEN 0 ELSE a[1]

RNeg(a) == <<-a[1], a[2]>>

\* a + b.  A finite model value is far below half an ulp of f32::MAX, so
\* MAX + finite rounds back to MAX; MAX + MAX overflows to infinity.
RAdd(a, b) ==
    IF IsNaN(a) \/ IsNaN(b) THEN NaN
    ELSE IF IsFin(a) /\ IsFin(b)
    THEN LET g == GCD(a[2], b[2])
         IN Norm(a[1] * (b[2] \div g) + b[1] * (a[2] \div g), (a[2] \div g) * b[2])
    ELSE IF IsInf(a) THEN (IF IsInf(b) /\ b # a THEN NaN ELSE a)
    ELSE IF IsInf(b) THEN b
    ELSE IF IsMax(a) /\ IsMax(b) THEN (IF a = b THEN <<2 * Sign(a), 0>> ELSE Zero)
    ELSE IF IsMax(a) THEN a ELSE b

RSub(a, b) == RAdd(a, RNeg(b))

\* a * b.  MAX * x overflows to infinity when |x| > 1 and stays at the MAX
\* magnitude class otherwise; 0 * MAX = 0; 0 * inf = NaN.
RMul(a, b) ==
    IF IsNaN(a) \/ IsNaN(b) THEN NaN
    ELSE IF IsFin(a) /\ IsFin(b)
    THEN LET g1 == GCD(Abs(a[1]), b[2])
             g2 == GCD(Abs(b[1]), a[2])
         IN Norm((a[1] \div g1) * (b[1] \div g2), (a[2] \div g2) * (b[2] \div g1))
    ELSE IF Sign(a) = 0 \/ Sign(b) = 0
    THEN (IF IsInf(a) \/ IsInf(b) THEN NaN ELSE Zero)
    ELSE LET s == Sign(a) * Sign(b)
             f == IF IsFin(a) THEN a ELSE b
         IN IF IsInf(a) \/ IsInf(b) THEN <<2 * s, 0>>
            ELSE IF IsMax(a) /\ IsMax(b) THEN <<2 * s, 0>>
            ELSE IF Abs(f[1]) > f[2] THEN <<2 * s, 0>> ELSE <<s, 0>>

\* a / b with the IEEE results for a zero or non-finite operand.
RDiv(a, b) ==
    IF IsNaN(a) \/ IsNaN(b) THEN NaN
    ELSE IF IsFin(a) /\ IsFin(b)
    THEN IF b[1] = 0
         THEN (IF a[1] = 0 THEN NaN ELSE <<2 * Sign(a), 0>>)
         ELSE RMul(a, <<Sign(b) * b[2], Abs(b[1])>>)
    ELSE IF IsFin(a) THEN Zero
    ELSE IF IsFin(b)
    THEN LET s == IF Sign(b) < 0 THEN -Sign(a) ELSE Sign(a)
         IN IF IsInf(a) \/ Abs(b[1]) < b[2] THEN <<2 * s, 0>> ELSE <<s, 0>>
    ELSE IF IsInf(a) THEN (IF IsInf(b) THEN NaN ELSE <<2 * Sign(a) * Sign(b), 0>>)
    ELSE IF IsInf(b) THEN Zero ELSE R(Sign(a) * Sign(b))

\* n1/d1 < n2/d2 for d1, d2 > 0, by integer parts and then the reciprocals of
\* the fractional parts, so that no product is formed.
RECURSIVE RatLt(_, _, _, _)
RatLt(n1, d1, n2, d2) ==
    LET q1 == n1 \div d1
        q2 == n2 \div d2
        r1 == n1 % d1
        r2 == n2 % d2
    IN IF q1 # q2 THEN q1 < q2
       ELSE IF r2 = 0 THEN FALSE
       ELSE IF r1 = 0 THEN TRUE
       ELSE RatLt(d2, r2, d1, r1)

\* Comparisons: every comparison with NaN is false.
RLt(a, b) ==
    /\ ~IsNaN(a)
    /\ ~IsNaN(b)
    /\ IF IsFin(a) /\ IsFin(b)
       THEN RatLt(a[1], a[2], b[1], b[2])
       ELSE Rank(a) < Rank(b)

REq(a, b) == ~IsNaN(a) /\ ~IsNaN(b) /\ a = b
RLe(a, b) == RLt(a, b) \/ REq(a, b)
RGt(a, b) == RLt(b, a)
RGe(a, b) == RLe(b, a)

\* Largest r with r * r <= n, by bisection on lo <= r < hi.
RECURSIVE ISqrtIn(_, _, _)
ISqrtIn(n, lo, hi) ==
    IF hi - lo <= 1 THEN lo
    ELSE LET mid == (lo + hi) \div 2
         IN IF mid * mid <= n THEN ISqrtIn(n, mid, hi) ELSE ISqrtIn(n, lo, mid)

ISqrt(n) == ISqrtIn(n, 0, 46341)

RECURSIVE IPow(_, _)
IPow(b, e) == IF e = 0 THEN 1 ELSE b * IPow(b, e - 1)

\* Largest r with r^q <= n.
RECURSIVE IRoot(_, _)
IRoot(n, q) ==
    IF q = 1 THEN n
    ELSE IF q % 2 = 0 THEN IRoot(ISqrt(n), q \div 2)
    ELSE CHOOSE r \in 0..n : IPow(r, q) <= n /\ IPow(r + 1, q) > n

\* f32::sqrt: exact on squares of rationals (root of numerator and denominator).
RSqrt(a) ==
    IF IsNaN(a) \/ Sign(a) < 0 THEN NaN
    ELSE IF ~IsFin(a) THEN a
    ELSE Norm(ISqrt(a[1]), ISqrt(a[2]))

\* f32::powi(2)
RSquare(a) == RMul(a, a)

\* f32::powf for a finite base >= 0: b^(p/q) is the q-th root raised to p.
RPow(b, e) ==
    IF ~IsFin(b) \/ ~IsFin(e) \/ Sign(b) < 0 THEN NaN
    ELSE IF Sign(e) = 0 THEN One
    ELSE LET p == Abs(e[1])
             q == e[2]
             r == Norm(IPow(IRoot(b[1], q), p), IPow(IRoot(b[2], q), p))
         IN IF Sign(e) > 0 THEN r ELSE RDiv(One, r)

-----------------------------------------------------------------------------
(* Vec3: src/src/math/vec3.rs is declared in src/src/math/mod.rs; its      *)
(* operations are those the specification gives for the 3D vector and that *)
(* src/src/math/vec2.rs implements for two components.                     *)

Vec3_new(x, y, z) == <<x, y, z>>
Vec3_ZERO == <<Zero, Zero, Zero>>

Vec3_add(a, b) == <<RAdd(a[1], b[1]), RAdd(a[2], b[2]), RAdd(a[3], b[3])>>
Vec3_sub(a, b) == <<RSub(a[1], b[1]), RSub(a[2], b[2]), RSub(a[3], b[3])>>
\* Vec3 * Real and Vec3 *= Real
Vec3_mul(a, s) == <<RMul(a[1], s), RMul(a[2], s), RMul(a[3], s)>>

magnitude_squared(a) == RAdd(RAdd(RSquare(a[1]), RSquare(a[2])), RSquare(a[3]))
magnitude(a) == RSqrt(magnitude_squared(a))

NORMALIZE_EPSILON == Q(1, 1000000000)

\* In place: a vector whose squared magnitude is not above 1e-9 becomes zero.
normalize(a) ==
    LET mag_sq == magnitude_squared(a)
    IN IF RGt(mag_sq, NORMALIZE_EPSILON)
       THEN Vec3_mul(a, RDiv(One, RSqrt(mag_sq)))
       ELSE Vec3_ZERO

add_scaled(a, other, scale) == Vec3_add(a, Vec3_mul(other, scale))

dot(a, b) == RAdd(RAdd(RMul(a[1], b[1]), RMul(a[2], b[2])), RMul(a[3], b[3]))

-----------------------------------------------------------------------------
(* Particle: src/src/particle.rs                                           *)

Particle_new ==
    [position |-> Vec3_ZERO, velocity |-> Vec3_ZERO, acceleration |-> Vec3_ZERO,
     damping |-> Zero, inverse_mass |-> Zero, force_accum |-> Vec3_ZERO]

has_finite_mass(p) == RGe(p.inverse_mass, Zero)

\* The result of a call that can panic: the particle it leaves, whether it
\* returned (ok) or panicked, and the number of add_force calls it made.
Returned(p) == [particle |-> p, ok |-> TRUE, add_force_calls |-> 0]
Panicked(p) == [particle |-> p, ok |-> FALSE, add_force_calls |-> 0]

\* A mutant of set_mass: the assertion on the mass is missing.
set_mass_NoAssert(p, m) == Returned([p EXCEPT !.inverse_mass = RDiv(One, m)])

set_mass(p, m) ==
    IF ~RGt(m, Zero) THEN Panicked(p)
    ELSE Returned([p EXCEPT !.inverse_mass = RDiv(One, m)])

mass(p) == IF REq(p.inverse_mass, Zero) THEN REAL_MAX ELSE RDiv(One, p.inverse_mass)

clear_accumulator(p) == [p EXCEPT !.force_accum = Vec3_ZERO]

add_force(p, force) == [p EXCEPT !.force_accum = Vec3_add(p.force_accum, force)]

\* The result of a call that returns after one particle.add_force(&force).
AddedForce(p, force) == [particle |-> add_force(p, force), ok |-> TRUE, add_force_calls |-> 1]

\* A mutant of damping_factor: the damping applied per step, not per unit time.
damping_factor_PerStep(p, duration) == p.damping

\* self.damping.pow(duration)
damping_factor(p, duration) == RPow(p.damping, duration)

\* A mutant of integrate_finite: explicit Euler, the velocity updated before
\* the position.
integrate_finite_VelocityFirst(p, duration) ==
    LET resulting_acc == add_scaled(p.acceleration, p.force_accum, p.inverse_mass)
        velocity1 == add_scaled(p.velocity, resulting_acc, duration)
        velocity2 == Vec3_mul(velocity1, damping_factor(p, duration))
        position1 == add_scaled(p.position, velocity2, duration)
    IN clear_accumulator([p EXCEPT !.position = position1, !.velocity = velocity2])

\* The body of integrate below its guard and assertion.
integrate_finite(p, duration) ==
    LET position1 == add_scaled(p.position, p.velocity, duration)
        resulting_acc == add_scaled(p.acceleration, p.force_accum, p.inverse_mass)
        velocity1 == add_scaled(p.velocity, resulting_acc, duration)
        velocity2 == Vec3_mul(velocity1, damping_factor(p, duration))
    IN clear_accumulator([p EXCEPT !.position = position1, !.velocity = velocity2])

\* A mutant of integrate: the infinite-mass guard tests < 0.0 instead of <= 0.0.
integrate_StrictGuard(p, duration) ==
    IF RLt(p.inverse_mass, Zero) THEN Returned(p)
    ELSE IF ~RGt(duration, Zero) THEN Panicked(p)
    ELSE Returned(integrate_finite(p, duration))

integrate(p, duration) ==
    IF RLe(p.inverse_mass, Zero) THEN Returned(p)
    ELSE IF ~RGt(duration, Zero) THEN Panicked(p)
    ELSE Returned(integrate_finite(p, duration))

-----------------------------------------------------------------------------
(* Inputs.  All vectors lie on the y axis, so that every magnitude the     *)
(* model takes is the root of a square.                                    *)

Y(q) == Vec3_new(Zero, q, Zero)

PositionInputs == {Y(Zero), Y(Q(3, 2))}
VelocityInputs == {Y(Zero), Y(R(2)), Y(R(-1))}
AccelerationInputs == {Y(Zero), Y(R(-1))}
DampingInputs == {Zero, Q(1, 16), One}
InverseMassInputs == {Zero, Q(1, 2), R(2)}
ForceInputs == {Y(R(3)), Y(R(-4))}
DurationInputs == {One, Q(1, 2), Zero, R(-1)}
MassInputs == {R(2), Q(1, 2), Zero, R(-1)}

\* The particles a caller can have built: Particle::new(), then set_mass and
\* writes to the public fields (as BallisticApp::fire does).
ParticleInputs ==
    [position : PositionInputs, velocity : VelocityInputs,
     acceleration : AccelerationInputs, damping : DampingInputs,
     inverse_mass : InverseMassInputs, force_accum : {Vec3_ZERO}]

-----------------------------------------------------------------------------
(* State machine of one particle under its public operations.              *)

\* The record of the call made last: the operation, the particle it was made
\* on, its scalar and vector arguments, the particles before the call and, for
\* update_forces, the registrations whose generator it invoked, in order, each
\* with the number of add_force calls the generator made.
Call(op, p, arg, vec) ==
    [op |-> op, p |-> p, arg |-> arg, vec |-> vec, pre |-> particles, invoked |-> <<>>]

Running == panic = "none" /\ steps < MaxSteps

Init ==
    /\ particles \in [{1} -> ParticleInputs]
    /\ registrations = <<>>
    /\ panic = "none"
    /\ last = Call("init", 0, Zero, Vec3_ZERO)
    /\ steps = 0

AddForce(p, force) ==
    /\ Running
    /\ particles' = [particles EXCEPT ![p] = add_force(@, force)]
    /\ last' = Call("add_force", p, Zero, force)
    /\ steps' = steps + 1
    /\ UNCHANGED <<registrations, panic>>

Integrate(p, duration) ==
    /\ Running
    /\ LET r == integrate(particles[p], duration)
       IN /\ particles' = [particles EXCEPT ![p] = r.particle]
          /\ panic' = IF r.ok THEN "none" ELSE "assert"
    /\ last' = Call("integrate", p, duration, Vec3_ZERO)
    /\ steps' = steps + 1
    /\ UNCHANGED registrations

ClearAccumulator(p) ==
    /\ Running
    /\ particles' = [particles EXCEPT ![p] = clear_accumulator(@)]
    /\ last' = Call("clear_accumulator", p, Zero, Vec3_ZERO)
    /\ steps' = steps + 1
    /\ UNCHANGED <<registrations, panic>>

SetMass(p, m) ==
    /\ Running
    /\ LET r == set_mass(particles[p], m)
       IN /\ particles' = [particles EXCEPT ![p] = r.particle]
          /\ panic' = IF r.ok THEN "none" ELSE "assert"
    /\ last' = Call("set_mass", p, m, Vec3_ZERO)
    /\ steps' = steps + 1
    /\ UNCHANGED registrations

Next ==
    \/ \E p \in DOMAIN particles, force \in ForceInputs : AddForce(p, force)
    \/ \E p \in DOMAIN particles, duration \in DurationInputs : Integrate(p, duration)
    \/ \E p \in DOMAIN particles : ClearAccumulator(p)
    \/ \E p \in DOMAIN particles, m \in MassInputs : SetMass(p, m)

Spec == Init /\ [][Next]_vars

-----------------------------------------------------------------------------
(* Force generators: src/src/pfgen.rs                                      *)

\* A generator is a record of its kind and fields; the fields a kind does not
\* have are zero.  `other` names the particle cell (Rc<RefCell<Particle>>) at
\* the other end of a spring or bungee, 0 where there is none.
Generator(kind, gravity, k1, k2, other, anchor, spring_constant, rest_length) ==
    [kind |-> kind, gravity |-> gravity, k1 |-> k1, k2 |-> k2, other |-> other,
     anchor |-> anchor, spring_constant |-> spring_constant,
     rest_length |-> rest_length]

ParticleGravity_new(gravity) ==
    Generator("Gravity", gravity, Zero, Zero, 0, Vec3_ZERO, Zero, Zero)
ParticleDrag_new(k1, k2) ==
    Generator("Drag", Vec3_ZERO, k1, k2, 0, Vec3_ZERO, Zero, Zero)
ParticleSpring_new(other, spring_constant, rest_length) ==
    Generator("Spring", Vec3_ZERO, Zero, Zero, other, Vec3_ZERO, spring_constant, rest_length)
ParticleAnchoredSpring_new(anchor, spring_constant, rest_length) ==
    Generator("AnchoredSpring", Vec3_ZERO, Zero, Zero, 0, anchor, spring_constant, rest_length)
ParticleBungee_new(other, spring_constant, rest_length) ==
    Generator("Bungee", Vec3_ZERO, Zero, Zero, other, Vec3_ZERO, spring_constant, rest_length)

\* Every update_force below takes the generator, the particle it was handed
\* (&mut Particle), the contents of the particle cells and the set of cells
\* that are mutably borrowed during the call.  RefCell::borrow() of a cell in
\* that set panics.

ParticleGravity_update_force(fg, particle, cells, borrowed) ==
    IF ~has_finite_mass(particle) THEN Returned(particle)
    ELSE AddedForce(particle, Vec3_mul(fg.gravity, mass(particle)))

\* A mutant of ParticleDrag_update_force: the force is built in the particle's
\* velocity itself instead of in a copy of it.
ParticleDrag_update_force_InPlace(fg, particle, cells, borrowed) ==
    LET speed == magnitude(particle.velocity)
        drag_coeff == RAdd(RMul(fg.k1, speed), RMul(RMul(fg.k2, speed), speed))
        force == Vec3_mul(normalize(particle.velocity), RNeg(drag_coeff))
    IN IF RLe(speed, Zero) THEN Returned(particle)
       ELSE AddedForce([particle EXCEPT !.velocity = force], force)

ParticleDrag_update_force(fg, particle, cells, borrowed) ==
    LET force == particle.velocity
        speed == magnitude(force)
        drag_coeff == RAdd(RMul(fg.k1, speed), RMul(RMul(fg.k2, speed), speed))
    IN IF RLe(speed, Zero) THEN Returned(particle)
       ELSE AddedForce(particle, Vec3_mul(normalize(force), RNeg(drag_coeff)))

\* A mutant of ParticleSpring_update_force: the extension taken in absolute
\* value, as in the formulation the source's note mentions.
ParticleSpring_update_force_Abs(fg, particle, cells, borrowed) ==
    IF fg.other \in borrowed THEN Panicked(particle)
    ELSE LET force == Vec3_sub(particle.position, cells[fg.other].position)
             magnitude0 == magnitude(force)
             extension == RSub(magnitude0, fg.rest_length)
             magnitude1 == RMul(IF RLt(extension, Zero) THEN RNeg(extension) ELSE extension,
                                fg.spring_constant)
         IN IF RLe(magnitude0, Zero) THEN Returned(particle)
            ELSE AddedForce(particle, Vec3_mul(normalize(force), RNeg(magnitude1)))

ParticleSpring_update_force(fg, particle, cells, borrowed) ==
    IF fg.other \in borrowed THEN Panicked(particle)
    ELSE LET force == Vec3_sub(particle.position, cells[fg.other].position)
             magnitude0 == magnitude(force)
             magnitude1 == RMul(RSub(magnitude0, fg.rest_length), fg.spring_constant)
         IN IF RLe(magnitude0, Zero) THEN Returned(particle)
            ELSE AddedForce(particle, Vec3_mul(normalize(force), RNeg(magnitude1)))

ParticleAnchoredSpring_update_force(fg, particle, cells, borrowed) ==
    LET force == Vec3_sub(particle.position, fg.anchor)
        magnitude0 == magnitude(force)
        magnitude1 == RMul(fg.spring_constant, RSub(fg.rest_length, magnitude0))
    IN IF RLe(magnitude0, Zero) THEN Returned(particle)
       ELSE AddedForce(particle, Vec3_mul(normalize(force), magnitude1))

ParticleBungee_update_force(fg, particle, cells, borrowed) ==
    IF fg.other \in borrowed THEN Panicked(particle)
    ELSE LET force == Vec3_sub(particle.position, cells[fg.other].position)
             magnitude0 == magnitude(force)
             magnitude1 == RMul(fg.spring_constant, RSub(fg.rest_length, magnitude0))
         IN IF RLe(magnitude0, fg.rest_length) THEN Returned(particle)
            ELSE AddedForce(particle, Vec3_mul(normalize(force), RNeg(magnitude1)))

\* Dispatch of the trait object Box<dyn ParticleForceGenerator>.
update_force(fg, particle, cells, borrowed) ==
    CASE fg.kind = "Gravity" -> ParticleGravity_update_force(fg, particle, cells, borrowed)
      [] fg.kind = "Drag" -> ParticleDrag_update_force(fg, particle, cells, borrowed)
      [] fg.kind = "Spring" -> ParticleSpring_update_force(fg, particle, cells, borrowed)
      [] fg.kind = "AnchoredSpring" ->
            ParticleAnchoredSpring_update_force(fg, particle, cells, borrowed)
      [] fg.kind = "Bungee" -> ParticleBungee_update_force(fg, particle, cells, borrowed)

-----------------------------------------------------------------------------
(* ParticleForceRegistry: src/src/pfgen.rs                                 *)

ParticleForceRegistration(particle, fg) == [particle |-> particle, force_generator |-> fg]

\* The loop of update_forces from registration i on: the registration's cell
\* is mutably borrowed for the call of its generator; a panic ends the loop
\* and keeps what the earlier iterations did.
RECURSIVE update_forces_from(_, _, _, _)
update_forces_from(regs, i, cells, invoked) ==
    IF i > Len(regs) THEN [particles |-> cells, ok |-> TRUE, invoked |-> invoked]
    ELSE LET registration == regs[i]
             r == update_force(registration.force_generator,
                               cells[registration.particle], cells,
                               {registration.particle})
             cells1 == [cells EXCEPT ![registration.particle] = r.particle]
             invoked1 == Append(invoked, [registration |-> i,
                                          add_force_calls |-> r.add_force_calls])
         IN IF r.ok THEN update_forces_from(regs, i + 1, cells1, invoked1)
            ELSE [particles |-> cells1, ok |-> FALSE, invoked |-> invoked1]

update_forces(regs, cells) == update_forces_from(regs, 1, cells, <<>>)

-----------------------------------------------------------------------------
(* State machine of a registry over two particle cells.                    *)

\* Bound on the number of update_forces calls in one behaviour.
MaxUpdates == 2

Cells == {1, 2}

GeneratorInputs ==
    {ParticleGravity_new(Y(R(-10))), ParticleDrag_new(One, Q(1, 2)),
     ParticleAnchoredSpring_new(Y(Zero), R(5), One)}
    \cup {ParticleSpring_new(other, R(5), One) : other \in Cells}
    \cup {ParticleBungee_new(other, R(5), One) : other \in Cells}

RegistrationInputs ==
    {ParticleForceRegistration(p, fg) : p \in Cells, fg \in GeneratorInputs}

\* The registries in use: none, one or two registrations.
RegistryInputs ==
    {<<>>} \cup {<<a>> : a \in RegistrationInputs}
    \cup {<<a, b>> : a \in RegistrationInputs, b \in RegistrationInputs}

\* Cell 1 is at the origin or one unit up, of either mass and speed; cell 2 is
\* at separations from it that are zero, below the normalisation threshold,
\* below, at and above the rest length.
CellInputs ==
    {<<a, b>> \in ParticleInputs \X ParticleInputs :
        /\ a.position \in {Y(Zero), Y(One)}
        /\ a.velocity \in {Y(Zero), Y(R(2))}
        /\ a.inverse_mass \in {Zero, Q(1, 2)}
        /\ a.acceleration = Vec3_ZERO /\ a.damping = One
        /\ b.position = Vec3_ZERO
        /\ b.velocity = Vec3_ZERO /\ b.inverse_mass = Q(1, 2)
        /\ b.acceleration = Vec3_ZERO /\ b.damping = One}

SeparationInputs == {Y(Zero), Y(Q(1, 40000)), Y(Q(1, 2)), Y(One), Y(R(3))}

InitRegistry ==
    /\ \E c \in CellInputs, position2 \in SeparationInputs :
          particles = [i \in Cells |->
                          IF i = 1 THEN c[1] ELSE [c[2] EXCEPT !.position = position2]]
    /\ registrations \in RegistryInputs
    /\ panic = "none"
    /\ last = Call("init", 0, Zero, Vec3_ZERO)
    /\ steps = 0

UpdateForces(duration) ==
    /\ panic = "none"
    /\ steps < MaxUpdates
    /\ LET r == update_forces(registrations, particles)
       IN /\ particles' = r.particles
          /\ panic' = IF r.ok THEN "none" ELSE "borrow"
          /\ last' = [Call("update_forces", 0, duration, Vec3_ZERO)
                         EXCEPT !.invoked = r.invoked]
    /\ steps' = steps + 1
    /\ UNCHANGED registrations

\* add, remove and clear are todo!(): the call panics.
RegistryAdd(p, fg) ==
    /\ panic = "none"
    /\ panic' = "todo"
    /\ last' = Call("add", p, Zero, Vec3_ZERO)
    /\ UNCHANGED <<particles, registrations, steps>>

RegistryRemove(p, fg) ==
    /\ panic = "none"
    /\ panic' = "todo"
    /\ last' = Call("remove", p, Zero, Vec3_ZERO)
    /\ UNCHANGED <<particles, registrations, steps>>

RegistryClear ==
    /\ panic = "none"
    /\ panic' = "todo"
    /\ last' = Call("clear", 0, Zero, Vec3_ZERO)
    /\ UNCHANGED <<particles, registrations, steps>>

NextRegistry ==
    \/ \E duration \in {One, Zero} : UpdateForces(duration)
    \/ \E p \in Cells, fg \in GeneratorInputs : RegistryAdd(p, fg)
    \/ \E p \in Cells, fg \in GeneratorInputs : RegistryRemove(p, fg)
    \/ RegistryClear

SpecRegistry == InitRegistry /\ [][NextRegistry]_vars

-----------------------------------------------------------------------------
(* Claims about one particle, checked under Spec.                          *)

\* The particle the last call was made on, before and after the call.
Before == last.pre[last.p]
After == particles[last.p]

IntegratedFor(duration_ok) == last.op = "integrate" /\ duration_ok

\* C1: after integrate(duration) with duration > 0 returns, force_accum of the
\* particle is the zero vector, whatever its inverse_mass.
C1_AccumulatorZeroAfterIntegrate ==
    (IntegratedFor(RGt(last.arg, Zero)) /\ panic = "none")
        => After.force_accum = Vec3_ZERO

\* C4: integrate(duration) with duration <= 0 fails its assertion for every
\* particle, before any field of the particle is modified.
C4_NonPositiveDurationIsFatal ==
    IntegratedFor(RLe(last.arg, Zero)) => (panic = "assert" /\ After = Before)

\* C5: integrate(duration) with duration > 0 on a particle with
\* inverse_mass == 0 leaves position, velocity, acceleration, damping and
\* inverse_mass unchanged, and so does add_force: the particle never moves.
C5_ImmovableUnchanged ==
    (/\ \/ IntegratedFor(RGt(last.arg, Zero))
        \/ last.op = "add_force"
     /\ REq(Before.inverse_mass, Zero))
        => /\ After.position = Before.position
           /\ After.velocity = Before.velocity
           /\ After.acceleration = Before.acceleration
           /\ After.damping = Before.damping
           /\ After.inverse_mass = Before.inverse_mass
           /\ panic = "none"

\* C5 witness: an immovable particle with a velocity, an acceleration and an
\* accumulated force has been integrated over a positive duration.
C5_Witness ==
    /\ IntegratedFor(RGt(last.arg, Zero))
    /\ REq(Before.inverse_mass, Zero)
    /\ Before.force_accum # Vec3_ZERO
    /\ Before.velocity # Vec3_ZERO
    /\ Before.acceleration # Vec3_ZERO

\* C10: for a finite-mass particle and duration > 0, integrate sets position to
\* old position + old velocity * duration, and velocity to
\* (old velocity + (acceleration + force_accum * inverse_mass) * duration)
\* * damping^duration, with force_accum as it was before being cleared.
C10_SemiImplicitEuler ==
    (IntegratedFor(RGt(last.arg, Zero)) /\ RGt(Before.inverse_mass, Zero))
        => LET duration == last.arg
               acc == Vec3_add(Before.acceleration,
                               Vec3_mul(Before.force_accum, Before.inverse_mass))
               v == Vec3_add(Before.velocity, Vec3_mul(acc, duration))
           IN /\ After.position
                    = Vec3_add(Before.position, Vec3_mul(Before.velocity, duration))
              /\ After.velocity = Vec3_mul(v, RPow(Before.damping, duration))

\* C10 witness: a finite-mass particle with a velocity, an acceleration, an
\* accumulated force and a damping strictly between 0 and 1 has been integrated,
\* and both its position and its velocity changed.
C10_Witness ==
    /\ IntegratedFor(RGt(last.arg, Zero))
    /\ RGt(Before.inverse_mass, Zero)
    /\ Before.force_accum # Vec3_ZERO
    /\ Before.acceleration # Vec3_ZERO
    /\ Before.velocity # Vec3_ZERO
    /\ RGt(Before.damping, Zero) /\ RLt(Before.damping, One)
    /\ After.position # Before.position
    /\ After.velocity # Before.velocity

-----------------------------------------------------------------------------
(* Claims about the generators and the registry, checked under             *)
(* SpecRegistry.                                                           *)

UpdatedForces == last.op = "update_forces" /\ panic = "none"

RegistrationsOn(p) ==
    {i \in 1..Len(registrations) : registrations[i].particle = p}

OnlyKindOn(p, kind) ==
    /\ RegistrationsOn(p) # {}
    /\ \A i \in RegistrationsOn(p) : registrations[i].force_generator.kind = kind

\* The force the last call added to the accumulator of cell p.
ForceAdded(p) == Vec3_sub(particles[p].force_accum, last.pre[p].force_accum)

RAbs(a) == IF RLt(a, Zero) THEN RNeg(a) ELSE a
RNegVec(a) == <<RNeg(a[1]), RNeg(a[2]), RNeg(a[3])>>

\* What C2 says one gravity generator adds to a particle.
C2_GravityForce(fg, particle) ==
    IF REq(particle.inverse_mass, Zero) THEN Vec3_ZERO
    ELSE Vec3_mul(fg.gravity, RDiv(One, particle.inverse_mass))

RECURSIVE C2_GravityTotal(_, _)
C2_GravityTotal(p, i) ==
    IF i = 0 THEN Vec3_ZERO
    ELSE Vec3_add(C2_GravityTotal(p, i - 1),
                  IF registrations[i].particle = p
                  THEN C2_GravityForce(registrations[i].force_generator, last.pre[p])
                  ELSE Vec3_ZERO)

\* C2: gravity adds no force to a particle with inverse_mass == 0 and exactly
\* gravity * mass to a finite-mass particle: after update_forces, a particle
\* that only gravity generators are registered on has gained the sum of those
\* forces, which is zero for an infinite mass.
C2_GravitySkipsInfiniteMass ==
    UpdatedForces =>
        \A p \in Cells :
            OnlyKindOn(p, "Gravity")
                => ForceAdded(p) = C2_GravityTotal(p, Len(registrations))

\* What C3 says one bungee adds: the spring's force when stretched beyond the
\* rest length, nothing otherwise.
C3_BungeeForce(fg, particle) ==
    LET d == Vec3_sub(particle.position, last.pre[fg.other].position)
        spring == ParticleSpring_update_force([fg EXCEPT !.kind = "Spring"],
                                              clear_accumulator(particle), last.pre, {})
    IN IF RGt(magnitude(d), fg.rest_length) THEN spring.particle.force_accum
       ELSE Vec3_ZERO

RECURSIVE C3_BungeeTotal(_, _)
C3_BungeeTotal(p, i) ==
    IF i = 0 THEN Vec3_ZERO
    ELSE Vec3_add(C3_BungeeTotal(p, i - 1),
                  IF registrations[i].particle = p
                  THEN C3_BungeeForce(registrations[i].force_generator, last.pre[p])
                  ELSE Vec3_ZERO)

\* C3: a bungee stretched beyond its rest length adds the force a spring with
\* the same ends, constant and rest length adds, and adds none otherwise: after
\* update_forces, a particle that only bungees are registered on has gained
\* the sum of those forces.
C3_BungeeMatchesSpring ==
    UpdatedForces =>
        \A p \in Cells :
            OnlyKindOn(p, "Bungee")
                => ForceAdded(p) = C3_BungeeTotal(p, Len(registrations))

\* Two particles joined by one spring registered on each end, with the same
\* constant and rest length.
SpringPair ==
    /\ Len(registrations) = 2
    /\ \A i \in {1, 2} :
          /\ registrations[i].force_generator.kind = "Spring"
          /\ registrations[i].force_generator.other = registrations[3 - i].particle
          /\ registrations[i].force_generator.other # registrations[i].particle
    /\ registrations[1].force_generator.spring_constant
          = registrations[2].force_generator.spring_constant
    /\ registrations[1].force_generator.rest_length
          = registrations[2].force_generator.rest_length

Separation == Vec3_sub(last.pre[1].position, last.pre[2].position)

\* The spring law of C6 for the forces added to cells 1 and 2: equal and
\* opposite, of magnitude k * | |d| - r |, toward the other end when stretched
\* and away from it when compressed.
C6_SpringLaw ==
    LET k == registrations[1].force_generator.spring_constant
        r == registrations[1].force_generator.rest_length
        m == magnitude(Separation)
        toward2 == dot(ForceAdded(1), RNegVec(Separation))
        toward1 == dot(ForceAdded(2), Separation)
    IN /\ Vec3_add(ForceAdded(1), ForceAdded(2)) = Vec3_ZERO
       /\ magnitude(ForceAdded(1)) = RMul(k, RAbs(RSub(m, r)))
       /\ magnitude(ForceAdded(2)) = RMul(k, RAbs(RSub(m, r)))
       /\ RGt(m, r) => (RGt(toward2, Zero) /\ RGt(toward1, Zero))
       /\ RLt(m, r) => (RLt(toward2, Zero) /\ RLt(toward1, Zero))

C6_NoForce == ForceAdded(1) = Vec3_ZERO /\ ForceAdded(2) = Vec3_ZERO

\* C6 as stated: the spring law holds at every separation |d| > 0, and no
\* force is added when |d| = 0.
C6_SpringLawAtEverySeparation ==
    (UpdatedForces /\ SpringPair)
        => IF RGt(magnitude(Separation), Zero) THEN C6_SpringLaw ELSE C6_NoForce

\* C6 as amended: the spring law holds at every separation whose square is
\* above the normalisation threshold 1e-9; at a smaller separation, zero
\* included, the accumulators are left as they were.
C6_SpringLawAboveThreshold ==
    (UpdatedForces /\ SpringPair)
        => IF RGt(magnitude_squared(Separation), NORMALIZE_EPSILON)
           THEN C6_SpringLaw ELSE C6_NoForce

\* C6 witness: a compressed spring pair (0 < |d| < rest length, above the
\* threshold) has been updated and pushed both particles.
C6_Witness ==
    /\ UpdatedForces
    /\ SpringPair
    /\ RGt(magnitude_squared(Separation), NORMALIZE_EPSILON)
    /\ RLt(magnitude(Separation), registrations[1].force_generator.rest_length)
    /\ ForceAdded(1) # Vec3_ZERO
    /\ ForceAdded(2) # Vec3_ZERO

\* C7: update_forces completes without a borrow conflict for every collection
\* of registrations.
C7_UpdateForcesCompletes == last.op = "update_forces" => panic = "none"

\* C8: add, remove and clear do not fail; after add(p, g) a registration of p
\* is in the collection, after clear() the collection is empty.
C8_RegistryOperationsSucceed ==
    last.op \in {"add", "remove", "clear"}
        => /\ panic = "none"
           /\ last.op = "add" => RegistrationsOn(last.p) # {}
           /\ last.op = "clear" => registrations = <<>>

-----------------------------------------------------------------------------
(* Two copies of one particle stepped over the same time: cell 1 in one    *)
(* integrate(T), cell 2 in two integrate(T / 2).                           *)

\* Bound on the number of frames in one behaviour.
MaxFrames == 2

FrameInputs == {One, Q(1, 2)}

FrameParticleInputs ==
    {c \in ParticleInputs : c.velocity # Vec3_ZERO /\ RGt(c.inverse_mass, Zero)}
    \cup {[c EXCEPT !.damping = d] :
             c \in {c \in ParticleInputs :
                       c.velocity # Vec3_ZERO /\ RGt(c.inverse_mass, Zero)},
             d \in {Q(81, 256), Q(1, 256)}}

InitDamping ==
    /\ \E c \in FrameParticleInputs : particles = [i \in Cells |-> c]
    /\ registrations = <<>>
    /\ panic = "none"
    /\ last = Call("init", 0, Zero, Vec3_ZERO)
    /\ steps = 0

Frame(T) ==
    /\ panic = "none"
    /\ steps < MaxFrames
    /\ LET whole == integrate(particles[1], T)
           half1 == integrate(particles[2], RDiv(T, R(2)))
           half2 == integrate(half1.particle, RDiv(T, R(2)))
       IN /\ particles' = [i \in Cells |-> IF i = 1 THEN whole.particle
                                           ELSE IF half1.ok THEN half2.particle
                                           ELSE half1.particle]
          /\ panic' = IF whole.ok /\ half1.ok /\ half2.ok THEN "none" ELSE "assert"
    /\ last' = Call("frame", 0, T, Vec3_ZERO)
    /\ steps' = steps + 1
    /\ UNCHANGED registrations

NextDamping == \E T \in FrameInputs : Frame(T)

SpecDamping == InitDamping /\ [][NextDamping]_vars

\* C9: for a finite-mass particle with zero acceleration and zero accumulated
\* force, the velocity after one integrate(T) equals the velocity after two
\* integrate(T / 2), and both are the initial velocity times damping^T.
C9_DampingStepSizeIndependent ==
    (/\ last.op = "frame"
     /\ last.pre[1].velocity = last.pre[2].velocity
     /\ last.pre[1].acceleration = Vec3_ZERO
     /\ last.pre[1].force_accum = Vec3_ZERO /\ last.pre[2].force_accum = Vec3_ZERO
     /\ RGt(last.pre[1].inverse_mass, Zero)
     /\ RGt(last.pre[1].damping, Zero) /\ RLe(last.pre[1].damping, One))
        => /\ particles[1].velocity = particles[2].velocity
           /\ particles[1].velocity
                 = Vec3_mul(last.pre[1].velocity, RPow(last.pre[1].damping, last.arg))

\* C9 witness: a moving particle with zero acceleration and a damping strictly
\* between 0 and 1 has been stepped both ways, and its velocity has dropped.
C9_Witness ==
    /\ last.op = "frame"
    /\ last.pre[1].velocity = last.pre[2].velocity
    /\ last.pre[1].acceleration = Vec3_ZERO
    /\ RGt(last.pre[1].damping, Zero) /\ RLt(last.pre[1].damping, One)
    /\ particles[1].velocity # last.pre[1].velocity
    /\ particles[2].velocity # Vec3_ZERO

-----------------------------------------------------------------------------
(* Claims about one update_forces call, checked under SpecRegistry.        *)

\* The force the generator of registration i adds to its particle, taken on
\* the particles as they were before the call.
GeneratorForce(i) ==
    update_force(registrations[i].force_generator,
                 clear_accumulator(last.pre[registrations[i].particle]),
                 last.pre, {}).particle.force_accum

\* The sum, in registration order, of the forces of the generators registered
\* on cell p among the first i registrations.
RECURSIVE GeneratorForceTotal(_, _)
GeneratorForceTotal(p, i) ==
    IF i = 0 THEN Vec3_ZERO
    ELSE Vec3_add(GeneratorForceTotal(p, i - 1),
                  IF registrations[i].particle = p THEN GeneratorForce(i)
                  ELSE Vec3_ZERO)

\* C11: one update_forces call invokes the generator of every registration
\* exactly once, in registration order, and leaves every particle with its
\* accumulator before the call plus the sum of the forces of the generators
\* registered on it (unchanged when none is).
C11_EveryGeneratorOnceInOrder ==
    last.op = "update_forces"
        => /\ Len(last.invoked) = Len(registrations)
           /\ \A j \in 1..Len(last.invoked) : last.invoked[j].registration = j
           /\ panic = "none"
           /\ \A p \in Cells :
                 particles[p].force_accum
                    = Vec3_add(last.pre[p].force_accum,
                               GeneratorForceTotal(p, Len(registrations)))

\* C12: every generator's update_force calls add_force on the particle it is
\* handed at most once and changes nothing else: after update_forces every
\* particle differs from what it was in force_accum at most, and a particle no
\* generator is registered on (the other end of a spring or bungee included)
\* is unchanged.
C12_GeneratorsOnlyAddForce ==
    last.op = "update_forces"
        => /\ \A j \in 1..Len(last.invoked) : last.invoked[j].add_force_calls <= 1
           /\ \A p \in Cells :
                 [particles[p] EXCEPT !.force_accum = last.pre[p].force_accum]
                    = last.pre[p]
           /\ \A p \in Cells : RegistrationsOn(p) = {} => particles[p] = last.pre[p]

\* C12 witness: a drag generator on a moving particle and a spring whose other
\* end has no registration have both been invoked, each calling add_force once,
\* and the accumulator of the drag's particle has changed.
C12_Witness ==
    /\ UpdatedForces
    /\ \A j \in 1..Len(last.invoked) : last.invoked[j].add_force_calls = 1
    /\ \E i, j \in 1..Len(registrations) :
          /\ registrations[i].force_generator.kind = "Drag"
          /\ last.pre[registrations[i].particle].velocity # Vec3_ZERO
          /\ particles[registrations[i].particle].force_accum
                # last.pre[registrations[i].particle].force_accum
          /\ registrations[j].force_generator.kind = "Spring"
          /\ RegistrationsOn(registrations[j].force_generator.other) = {}

-----------------------------------------------------------------------------
(* One particle from Particle::new() on, under the same operations as Spec. *)

InitNew ==
    /\ particles = [i \in {1} |-> Particle_new]
    /\ registrations = <<>>
    /\ panic = "none"
    /\ last = Call("init", 0, Zero, Vec3_ZERO)
    /\ steps = 0

SpecNew == InitNew /\ [][Next]_vars

\* C13: every particle reachable from Particle::new() by set_mass, add_force,
\* integrate and clear_accumulator has damping in (0,1], so that integrate of a
\* finite-mass particle keeps the velocity its acceleration and forces produce.
C13_DampingInUnitInterval ==
    \A p \in DOMAIN particles :
        /\ RGt(particles[p].damping, Zero)
        /\ RLe(particles[p].damping, One)
        /\ (/\ IntegratedFor(RGt(last.arg, Zero))
            /\ last.p = p
            /\ RGt(Before.inverse_mass, Zero)
            /\ Before.force_accum # Vec3_ZERO)
               => After.velocity # Vec3_ZERO

\* C14: from Particle::new() on, inverse_mass >= 0: new() gives 0, set_mass(m)
\* with m > 0 sets it to 1/m so that mass() returns m, set_mass(m) with m <= 0
\* panics and leaves it unchanged, and mass() of inverse_mass == 0 is the
\* sentinel Real::MAX.
C14_InverseMassNonNegative ==
    \A p \in DOMAIN particles :
        /\ RGe(particles[p].inverse_mass, Zero)
        /\ IsFin(particles[p].inverse_mass)
        /\ last.op = "init" => REq(particles[p].inverse_mass, Zero)
        /\ (last.op = "set_mass" /\ last.p = p /\ RGt(last.arg, Zero))
              => /\ panic = "none"
                 /\ particles[p].inverse_mass = RDiv(One, last.arg)
                 /\ mass(particles[p]) = last.arg
        /\ (last.op = "set_mass" /\ last.p = p /\ RLe(last.arg, Zero))
              => /\ panic = "assert"
                 /\ particles[p] = last.pre[p]
        /\ REq(particles[p].inverse_mass, Zero) => mass(particles[p]) = REAL_MAX

\* C14 witness: a particle still of infinite mass after other operations has
\* been given a mass, and its inverse mass is now positive.
C14_Witness ==
    /\ last.op = "set_mass"
    /\ RGt(last.arg, Zero)
    /\ steps > 1
    /\ REq(Before.inverse_mass, Zero)
    /\ RGt(After.inverse_mass, Zero)

=============================================================================
